---------------------------- MODULE Spec2Model ----------------------------
(***************************************************************************)
(* Model of src/main.py: the buffered streaming tool-call interception of  *)
(* call_inference_stream, the brace scanner _find_complete_json, and the   *)
(* /chat/stream and /api/reset handlers around the SESSIONS map.           *)
(*                                                                         *)
(* Text is a sequence of one-character strings.  Python indices are kept   *)
(* 0-based where the code returns them (sidx, eidx); TLA+ sequences are    *)
(* 1-based, so s[i] of the code is s[i + 1] here.                          *)
(***************************************************************************)
EXTENDS Integers, Sequences, FiniteSets, TLC

(***************************************************************************)
(* Characters and small string helpers                                     *)
(***************************************************************************)
QUOTE == "\""
BACKSLASH == "\\"

\* The literal the scanner compares each character with on line 439.  The
\* source text is '\\\\' in a non-raw Python string: a string of TWO
\* backslash characters.  The TLA+ string below is the same two characters.
ESCAPE_LITERAL == "\\\\"

UpperCase == <<"A","B","C","D","E","F","G","H","I","J","K","L","M",
               "N","O","P","Q","R","S","T","U","V","W","X","Y","Z">>
LowerCase == <<"a","b","c","d","e","f","g","h","i","j","k","l","m",
               "n","o","p","q","r","s","t","u","v","w","x","y","z">>

\* str.lower() on one character
LowerChar(c) ==
  IF \E i \in 1..26 : UpperCase[i] = c
  THEN LowerCase[CHOOSE i \in 1..26 : UpperCase[i] = c]
  ELSE c

\* str.lower()
Lower(s) == [i \in 1..Len(s) |-> LowerChar(s[i])]

\* s.find(c): 0-based index of the first c in s, -1 when there is none
Find(s, c) ==
  IF \E i \in 1..Len(s) : s[i] = c
  THEN (CHOOSE i \in 1..Len(s) : s[i] = c /\ \A k \in 1..(i - 1) : s[k] # c) - 1
  ELSE -1

\* c in s
Contains(s, c) == \E i \in 1..Len(s) : s[i] = c

\* s[:n] and s[n:] for 0 <= n
Take(s, n) == SubSeq(s, 1, n)
Drop(s, n) == SubSeq(s, n + 1, Len(s))

\* s.strip() of spaces, then startswith(c)
StripStartsWith(s, c) ==
  \E i \in 1..Len(s) :
    s[i] = c /\ \A k \in 1..(i - 1) : s[k] \in {" ", "\n", "\r", "\t"}

(***************************************************************************)
(* _find_complete_json (lines 423-452)                                     *)
(***************************************************************************)
\* depth, in_str, escape: the three locals of the scan; ret: the 1-based
\* position of the closing brace once the function has returned, else 0.
ScanInit == [depth |-> 0, in_str |-> FALSE, escape |-> FALSE, ret |-> 0]

\* The same step with the backslash recognised (ch compared with one
\* backslash character): what line 439 would do with a one-character literal.
ScanStepEscaping(st, ch, i) ==
  IF st.ret # 0 THEN st
  ELSE IF st.in_str THEN
    IF st.escape THEN [st EXCEPT !.escape = FALSE]
    ELSE IF ch = BACKSLASH THEN [st EXCEPT !.escape = TRUE]
    ELSE IF ch = QUOTE THEN [st EXCEPT !.in_str = FALSE]
    ELSE st
  ELSE IF ch = QUOTE THEN [st EXCEPT !.in_str = TRUE]
  ELSE IF ch = "{" THEN [st EXCEPT !.depth = st.depth + 1]
  ELSE IF ch = "}" THEN
    IF st.depth - 1 = 0
    THEN [st EXCEPT !.depth = st.depth - 1, !.ret = i]
    ELSE [st EXCEPT !.depth = st.depth - 1]
  ELSE st

\* The step with string literals ignored: every brace counts.
ScanStepNoStrings(st, ch, i) ==
  IF st.ret # 0 THEN st
  ELSE IF ch = "{" THEN [st EXCEPT !.depth = st.depth + 1]
  ELSE IF ch = "}" THEN
    IF st.depth - 1 = 0
    THEN [st EXCEPT !.depth = st.depth - 1, !.ret = i]
    ELSE [st EXCEPT !.depth = st.depth - 1]
  ELSE st

\* One iteration of the for loop, lines 434-451, on character ch at
\* 1-based position i.
ScanStep(st, ch, i) ==
  IF st.ret # 0 THEN st
  ELSE IF st.in_str THEN
    IF st.escape THEN [st EXCEPT !.escape = FALSE]
    ELSE IF ch = ESCAPE_LITERAL THEN [st EXCEPT !.escape = TRUE]
    ELSE IF ch = QUOTE THEN [st EXCEPT !.in_str = FALSE]
    ELSE st
  ELSE IF ch = QUOTE THEN [st EXCEPT !.in_str = TRUE]
  ELSE IF ch = "{" THEN [st EXCEPT !.depth = st.depth + 1]
  ELSE IF ch = "}" THEN
    IF st.depth - 1 = 0
    THEN [st EXCEPT !.depth = st.depth - 1, !.ret = i]
    ELSE [st EXCEPT !.depth = st.depth - 1]
  ELSE st

\* The for loop over positions lo..hi, left to right, from state st.  The
\* range is halved so that the evaluation depth is logarithmic; the steps
\* are applied in the order of the loop.  The state after the first half is
\* bound by a set comprehension so that it is computed once.
RECURSIVE ScanRange(_, _, _, _)
ScanRange(s, lo, hi, st) ==
  IF lo > hi \/ st.ret # 0 THEN st
  ELSE IF lo = hi THEN ScanStep(st, s[lo], lo)
  ELSE LET mid == (lo + hi) \div 2
       IN CHOOSE r \in {ScanRange(s, mid + 1, hi, half) :
                          half \in {ScanRange(s, lo, mid, st)}} : TRUE

NoJson == [js |-> <<>>, sidx |-> -1, eidx |-> -1]

\* lines 428-452 on the text v
FindIn(v) ==
  LET start == Find(v, "{")
  IN IF start = -1 THEN NoJson
     ELSE CHOOSE r \in
            {IF st.ret = 0 THEN NoJson
             ELSE [js |-> SubSeq(v, start + 1, st.ret), sidx |-> start, eidx |-> st.ret] :
               st \in {ScanRange(v, start + 1, Len(v), ScanInit)}} : TRUE

\* Returns (json_str, start_index, end_index); (None, None, None) is NoJson,
\* whose js is empty and so falsy in `if js:`.
_find_complete_json(s) == CHOOSE r \in {FindIn(v) : v \in {s}} : TRUE

(***************************************************************************)
(* json.loads on the text handed to it on line 515: objects, strings with  *)
(* their escapes, the literals true, false and null, and blanks between    *)
(* tokens.  The texts of the model hold no digit and no bracket, so        *)
(* numbers and arrays do not occur: any other character is a parse error.  *)
(***************************************************************************)
NoneVal == [t |-> "none", s |-> <<>>, m |-> <<>>]
StrVal(chars) == [t |-> "str", s |-> chars, m |-> <<>>]
LitVal(name) == [t |-> name, s |-> <<>>, m |-> <<>>]
\* a dict: m is the sequence of its [k, v] members, s its source text
ObjVal(raw, members) == [t |-> "obj", s |-> raw, m |-> members]

ParseFail == [ok |-> FALSE, next |-> 0, val |-> NoneVal]
ParseOk(next, val) == [ok |-> TRUE, next |-> next, val |-> val]

WsChars == {" ", "\n", "\r", "\t"}
HexChars == {"0","1","2","3","4","5","6","7","8","9",
             "a","b","c","d","e","f","A","B","C","D","E","F"}

SkipWs(s, i) ==
  CHOOSE j \in i..(Len(s) + 1) :
    /\ \A k \in i..(j - 1) : s[k] \in WsChars
    /\ (j = Len(s) + 1 \/ s[j] \notin WsChars)

\* the character an escape \e stands for; "" when \e is no escape
Unescape(e) ==
  CASE e = QUOTE -> QUOTE
    [] e = BACKSLASH -> BACKSLASH
    [] e = "/" -> "/"
    [] e = "b" -> "\\b"
    [] e = "f" -> "\f"
    [] e = "n" -> "\n"
    [] e = "r" -> "\r"
    [] e = "t" -> "\t"
    [] OTHER -> ""

\* the body of a string literal from position j on, acc decoded so far
RECURSIVE ParseStrBody(_, _, _)
ParseStrBody(s, j, acc) ==
  IF j > Len(s) THEN ParseFail
  ELSE IF s[j] = QUOTE THEN ParseOk(j + 1, StrVal(acc))
  ELSE IF s[j] \in {"\n", "\r", "\t"} THEN ParseFail
  ELSE IF s[j] = BACKSLASH THEN
    IF j + 1 > Len(s) THEN ParseFail
    ELSE IF s[j + 1] = "u" THEN
      IF j + 5 <= Len(s) /\ \A k \in (j + 2)..(j + 5) : s[k] \in HexChars
      THEN ParseStrBody(s, j + 6,
             Append(acc, "\\u" \o s[j + 2] \o s[j + 3] \o s[j + 4] \o s[j + 5]))
      ELSE ParseFail
    ELSE IF Unescape(s[j + 1]) = "" THEN ParseFail
    ELSE ParseStrBody(s, j + 2, Append(acc, Unescape(s[j + 1])))
  ELSE ParseStrBody(s, j + 1, Append(acc, s[j]))

StartsAt(s, i, w) ==
  i + Len(w) - 1 <= Len(s) /\ SubSeq(s, i, i + Len(w) - 1) = w

RECURSIVE ParseVal(_, _), ParseMembers(_, _, _, _)
\* a value starting at position i (blanks already skipped)
ParseVal(s, i) ==
  IF i > Len(s) THEN ParseFail
  ELSE IF s[i] = QUOTE THEN ParseStrBody(s, i + 1, <<>>)
  ELSE IF s[i] = "{" THEN
    LET j == SkipWs(s, i + 1)
    IN IF j > Len(s) THEN ParseFail
       ELSE IF s[j] = "}" THEN ParseOk(j + 1, ObjVal(SubSeq(s, i, j), <<>>))
       ELSE ParseMembers(s, i, j, <<>>)
  ELSE IF StartsAt(s, i, <<"t","r","u","e">>) THEN ParseOk(i + 4, LitVal("true"))
  ELSE IF StartsAt(s, i, <<"f","a","l","s","e">>) THEN ParseOk(i + 5, LitVal("false"))
  ELSE IF StartsAt(s, i, <<"n","u","l","l">>) THEN ParseOk(i + 4, LitVal("null"))
  ELSE ParseFail

\* the members of the object opened at position open, the next key
\* expected at position j, acc the members read so far
ParseMembers(s, open, j, acc) ==
  IF j > Len(s) \/ s[j] # QUOTE THEN ParseFail
  ELSE LET key == ParseStrBody(s, j + 1, <<>>)
       IN IF ~key.ok THEN ParseFail
          ELSE LET c == SkipWs(s, key.next)
               IN IF c > Len(s) \/ s[c] # ":" THEN ParseFail
                  ELSE LET v == ParseVal(s, SkipWs(s, c + 1))
                       IN IF ~v.ok THEN ParseFail
                          ELSE LET e == SkipWs(s, v.next)
                                   ms == Append(acc, [k |-> key.val.s, v |-> v.val])
                               IN IF e > Len(s) THEN ParseFail
                                  ELSE IF s[e] = "}"
                                  THEN ParseOk(e + 1, ObjVal(SubSeq(s, open, e), ms))
                                  ELSE IF s[e] = ","
                                  THEN ParseMembers(s, open, SkipWs(s, e + 1), ms)
                                  ELSE ParseFail

\* the variant that takes any brace-balanced text for a dict without members
json_loads_lenient(js) == ParseOk(Len(js) + 1, ObjVal(js, <<>>))

\* json.loads(js): ok is FALSE where json.loads raises
json_loads(js) ==
  LET r == ParseVal(js, SkipWs(js, 1))
  IN IF r.ok /\ SkipWs(js, r.next) = Len(js) + 1 THEN r ELSE ParseFail

\* dict.get(key): the value of the last member named key, else None
DictGet(d, key) ==
  IF \E i \in 1..Len(d.m) : d.m[i].k = key
  THEN d.m[CHOOSE i \in 1..Len(d.m) :
              d.m[i].k = key /\ \A n \in (i + 1)..Len(d.m) : d.m[n].k # key].v
  ELSE NoneVal

\* Python truthiness of a parsed value
Truthy(v) ==
  CASE v.t = "str" -> v.s # <<>>
    [] v.t = "obj" -> v.m # <<>>
    [] v.t = "true" -> TRUE
    [] OTHER -> FALSE

(***************************************************************************)
(* Program constants and fixed texts                                       *)
(***************************************************************************)
\* len(buffer_text) > 2048, line 567
GUARD_LEN == 2048
\* len(history) > 9, line 604
HISTORY_LIMIT == 9
\* history[-8:], line 605
KEEP_LAST == 8

\* SYSTEM_PROMPT (lines 202-220), abbreviated to three characters
SYSTEM_PROMPT == <<"S","Y","S">>

Msg(role, content) == [role |-> role, content |-> content]

TOOL == <<"t","o","o","l">>
QUERY == <<"q","u","e","r","y">>
TOOL_RESULT_PREFIX == <<"T","O","O","L"," ","R","E","S","U","L","T",":"," ">>
API_ERROR_PREFIX == <<"A","P","I"," ","E","r","r","o","r"," ">>
CONNECTION_INTERRUPTED ==
  <<"C","o","n","n","e","c","t","i","o","n"," ","i","n","t","e","r","r","u","p","t","e","d",".">>
DONE_RESULT == <<"D","o","n","e">>
TOOL_NOT_FOUND == <<"T","o","o","l"," ","n","o","t"," ","f","o","u","n","d",".">>
\* f"Tool execution error: {str(e)}", the message of e left out
TOOL_EXECUTION_ERROR ==
  <<"T","o","o","l"," ","e","x","e","c","u","t","i","o","n"," ","e","r","r","o","r",":"," ">>
NO_QUERY_PROVIDED == <<"N","o"," ","q","u","e","r","y"," ","p","r","o","v","i","d","e","d",".">>

GetInfoNames == {<<"g","e","t","_","i","n","f","o">>, <<"g","e","t","i","n","f","o">>}
TelegramNames ==
  {<<"g","e","t","_","t","e","l","e","g","r","a","m","_","h","i","s","t","o","r","y">>,
   <<"g","e","t","_","t","e","l","e","g","r","a","m","_","u","p","d","a","t","e","s">>,
   <<"t","g","_","h","i","s","t","o","r","y">>,
   <<"t","e","l","e","g","r","a","m","_","h","i","s","t","o","r","y">>}

(***************************************************************************)
(* Tools (lines 236-417 and the dispatch of lines 530-540)                 *)
(***************************************************************************)
\* What the knowledge base may answer to a non-empty query: the content of
\* KB is outside the model, so the answer is an input of the tool call.
KbAnswers == {<<"N","o"," ","r","e","c","o","r","d">>, <<"k","b">>}
\* What fetch_telegram_history may return (always a string)
TgAnswers == {<<"t","g">>}

\* search_kb(query): line 245 returns early on a falsy or non-string query
search_kb(query, kb) ==
  IF ~Truthy(query) \/ query.t # "str" THEN NO_QUERY_PROVIDED ELSE kb

\* a dispatch that takes a name that is no string for an unknown tool
RunToolUnguarded(tool_name, query, kb, tg) ==
  LET tool_name_lower == IF tool_name.t = "str" THEN Lower(tool_name.s) ELSE <<>>
  IN IF tool_name_lower \in GetInfoNames THEN search_kb(query, kb)
     ELSE IF tool_name_lower \in TelegramNames THEN tg
     ELSE TOOL_NOT_FOUND

\* lines 530-540: the tool result for the parsed tool name and query
RunTool(tool_name, query, kb, tg) ==
  IF Truthy(tool_name) /\ tool_name.t # "str"
  THEN TOOL_EXECUTION_ERROR          \* .lower() raises, caught on line 539
  ELSE LET tool_name_lower == IF Truthy(tool_name) THEN Lower(tool_name.s) ELSE <<>>
       IN IF tool_name_lower \in GetInfoNames THEN search_kb(query, kb)
          ELSE IF tool_name_lower \in TelegramNames THEN tg
          ELSE TOOL_NOT_FOUND

(***************************************************************************)
(* Stream events (the SSE frames yielded to the client).  turn is the      *)
(* number of the upstream request whose generator yielded the event; it is *)
(* 0 for the ping and done frames of generate().                           *)
(***************************************************************************)
Ev(type, content, tool, input, turn) ==
  [type |-> type, content |-> content, tool |-> tool, input |-> input, turn |-> turn]
TokenEv(c, t) == Ev("token", c, NoneVal, NoneVal, t)
ErrorEv(c, t) == Ev("error", c, NoneVal, NoneVal, t)
ToolStartEv(tool, input, t) == Ev("tool_start", <<>>, tool, input, t)
ToolEndEv(t) == Ev("tool_end", DONE_RESULT, NoneVal, NoneVal, t)
PingEv == Ev("ping", <<>>, NoneVal, NoneVal, 0)
DoneEv == Ev("done", <<>>, NoneVal, NoneVal, 0)

\* the frames of a tool call without the tool_end frame
ToolFramesStartOnly(tool_name, query, t) == <<ToolStartEv(tool_name, query, t)>>

\* lines 526 and 546: the two frames of a tool call
ToolFrames(tool_name, query, t) == <<ToolStartEv(tool_name, query, t), ToolEndEv(t)>>

\* `if before:` of lines 510-511
TokenIf(c, t) == IF c # <<>> THEN <<TokenEv(c, t)>> ELSE <<>>

(***************************************************************************)
(* One iteration of the delta loop, lines 501-573, as a function of the    *)
(* buffer and the delta.  kind tells the branch taken:                     *)
(*   "tool"    a complete object that parses (lines 522-561)               *)
(*   "badjson" a complete object that does not parse (lines 516-520)       *)
(*   "flush"   no object, buffer yielded as one token (567-569, 571-573)   *)
(*   "hold"    no object, buffer kept (line 565 without 567)               *)
(***************************************************************************)
\* the else branch with the guard comparing with >= instead of >
HoldOrFlushAtGuard(buffer_text) ==
  IF Contains(buffer_text, "{")
  THEN IF Len(buffer_text) >= GUARD_LEN
       THEN [kind |-> "flush", out |-> buffer_text, buffer |-> <<>>]
       ELSE [kind |-> "hold", out |-> <<>>, buffer |-> buffer_text]
  ELSE [kind |-> "flush", out |-> buffer_text, buffer |-> <<>>]

\* the else branch that holds everything back until the stream ends
HoldOrFlushHoldAll(buffer_text) ==
  [kind |-> "hold", out |-> <<>>, buffer |-> buffer_text]

\* the else branch that yields only a portion of the buffer at the guard
HoldOrFlushPortion(buffer_text) ==
  IF Contains(buffer_text, "{")
  THEN IF Len(buffer_text) > GUARD_LEN
       THEN [kind |-> "flush", out |-> Take(buffer_text, GUARD_LEN), buffer |-> <<>>]
       ELSE [kind |-> "hold", out |-> <<>>, buffer |-> buffer_text]
  ELSE [kind |-> "flush", out |-> buffer_text, buffer |-> <<>>]

\* the else branch that never holds text back
HoldOrFlushEager(buffer_text) ==
  [kind |-> "flush", out |-> buffer_text, buffer |-> <<>>]

\* lines 562-573
HoldOrFlush(buffer_text) ==
  IF Contains(buffer_text, "{")
  THEN IF Len(buffer_text) > GUARD_LEN
       THEN [kind |-> "flush", out |-> buffer_text, buffer |-> <<>>]
       ELSE [kind |-> "hold", out |-> <<>>, buffer |-> buffer_text]
  ELSE [kind |-> "flush", out |-> buffer_text, buffer |-> <<>>]

\* lines 504-573 on the buffer after line 501, f what line 504 found in it
SplitStep(buffer_text, f) ==
  IF f.js # <<>>
  THEN LET parsed == json_loads(f.js)
       IN [kind      |-> IF parsed.ok THEN "tool" ELSE "badjson",
           before    |-> Take(buffer_text, f.sidx),
           js        |-> f.js,
           after     |-> Drop(buffer_text, f.eidx),
           tool_name |-> IF parsed.ok THEN DictGet(parsed.val, TOOL) ELSE NoneVal,
           query     |-> IF parsed.ok THEN DictGet(parsed.val, QUERY) ELSE NoneVal,
           out       |-> <<>>,
           buffer    |-> Drop(buffer_text, f.eidx)]
  ELSE LET h == HoldOrFlush(buffer_text)
       IN [kind |-> h.kind, before |-> <<>>, js |-> <<>>, after |-> <<>>,
           tool_name |-> NoneVal, query |-> NoneVal,
           out |-> h.out, buffer |-> h.buffer]

\* lines 501-573: buffer_text += delta, then the split
DeltaStep(buffer_before, delta) ==
  CHOOSE d \in {SplitStep(buffer_text, f) :
                  buffer_text \in {buffer_before \o delta},
                  f \in {_find_complete_json(buffer_before \o delta)}} : TRUE

(***************************************************************************)
(* What the upstream model may stream in one turn                          *)
(***************************************************************************)
\* a tool call alone, as SYSTEM_PROMPT asks for it
T_TOOL == <<"{","\"","t","o","o","l","\"",":","\"","g","e","t","_","i","n","f","o","\"",",",
            "\"","q","u","e","r","y","\"",":","\"","p","r","i","c","i","n","g","\"","}">>
\* plain text
T_PLAIN == <<"o","k",".">>
\* a tool call whose query holds an escaped quote: {"tool":"x","query":"a\"b"}
T_ESC == <<"{","\"","t","o","o","l","\"",":","\"","x","\"",",",
           "\"","q","u","e","r","y","\"",":","\"","a","\\","\"","b","\"","}">>
\* an escaped quote followed by a brace: {"a":"\"}"}
T_ESC_BRACE == <<"{","\"","a","\"",":","\"","\\","\"","}","\"","}">>
\* the same with a nested object after it: {"a":"\"}","b":{}}
T_ESC_NEST == <<"{","\"","a","\"",":","\"","\\","\"","}","\"",",","\"","b","\"",":","{","}","}">>
\* text around an object with a brace in a string: Hi {"a":"}"} ok
T_BRACE == <<"H","i"," ","{","\"","a","\"",":","\"","}","\"","}"," ","o","k">>
\* an object that never closes: {"tool": "get_info", "query": "x"
T_UNCLOSED == <<"{","\"","t","o","o","l","\"",":"," ","\"","g","e","t","_","i","n","f","o","\"",",",
                " ","\"","q","u","e","r","y","\"",":"," ","\"","x","\"">>
\* two tool calls one after the other: {"tool":"x"}{"tool":"y"}
T_TWO == <<"{","\"","t","o","o","l","\"",":","\"","x","\"","}",
           "{","\"","t","o","o","l","\"",":","\"","y","\"","}">>
\* a balanced object that is no JSON, with text after it: {x} ok
T_BAD == <<"{","x","}"," ","o","k">>
\* a call of a tool that does not exist: {"tool":"x"}
T_CALL == <<"{","\"","t","o","o","l","\"",":","\"","x","\"","}">>
\* the shortest plain text
T_ONE == <<"k">>
\* a call whose tool name is no string: {"tool":true}
T_EXC == <<"{","\"","t","o","o","l","\"",":","t","r","u","e","}">>
\* a balanced object followed by more text than the guard holds back
T_AFTER == <<"{","x","}">> \o [i \in 1..(GUARD_LEN + 1) |-> "x"]
\* an open brace followed by more text than the guard holds back
T_LONG == <<"{">> \o [i \in 1..(GUARD_LEN + 2) |-> "x"]

\* Bounds of the model
\* the deepest nesting of call_inference_stream: at this depth the upstream
\* answers with plain text only
MaxDepth == 4
\* in the first turn a text of at most this length is cut into deltas at
\* any position
MaxShort == 40
\* any other text is cut only this close to its start or to its end
MaxEdge == 3

FirstTexts == {T_TOOL, T_PLAIN, T_ESC, T_ESC_BRACE, T_ESC_NEST, T_BRACE,
               T_UNCLOSED, T_TWO, T_LONG, T_BAD, T_CALL, T_EXC, T_AFTER}
FollowTexts == {T_TOOL, T_PLAIN}
FinalTexts == {T_PLAIN}
\* the answers to the user messages of the session specifications
SessionTexts == {T_ONE, T_CALL}
SessionFinalTexts == {T_ONE}
\* the user message whose answers are FirstTexts, and the other one
ProbeMsg == <<"h","i">>
SessionMsg == <<"q">>
\* the message of the second handler where two handlers share a session
OtherMsg == <<"r">>
\* the payload belongs to a request with the message ProbeMsg
Probe(payload) == \E i \in 1..Len(payload) : payload[i] = Msg("user", ProbeMsg)
Other(payload) == \E i \in 1..Len(payload) : payload[i] = Msg("user", OtherMsg)

\* What the upstream may stream in answer to the messages of a payload, for
\* the generator at the given depth.  To ProbeMsg: anything in the first
\* turn; after the result of a T_TOOL call another call or plain text; plain
\* text after any other call and at the deepest level.  To SessionMsg: one
\* character or a call in the first turn, one character after the call.
\* To a payload that holds OtherMsg: one character.
AnswersTo(payload, depth) ==
  IF Other(payload) THEN SessionFinalTexts
  ELSE IF ~Probe(payload)
  THEN IF depth = 1 THEN SessionTexts ELSE SessionFinalTexts
  ELSE IF depth = 1 THEN FirstTexts
  ELSE IF depth < MaxDepth /\ Len(payload) >= 2
          /\ payload[Len(payload) - 1] = [role |-> "assistant", content |-> T_TOOL]
       THEN FollowTexts
       ELSE FinalTexts

\* a delta may end at position p of the text streamed at the given depth
CutOk(text, p, depth) ==
  \/ depth = 1 /\ Len(text) <= MaxShort
  \/ p <= MaxEdge
  \/ p >= Len(text) - MaxEdge

HttpErrors == {<<"5","0","0">>}
SessionIds == {"s1", "s2"}
UserMsgs == {ProbeMsg}
SessionMsgs == {SessionMsg}
AllReqs == {1, 2}
\* the request handlers that run in the stream specification
StreamReqs == {1}
StreamSids == {"s1"}

(***************************************************************************)
(* State                                                                   *)
(***************************************************************************)
VARIABLES
  SESSIONS,   \* the dict of line 226: session id -> list (a position in heap)
  heap,       \* the Python lists of messages, in order of creation
  req         \* per request handler, the locals of chat_stream, generate and
              \* the stack of call_inference_stream generators

vars == <<SESSIONS, heap, req>>

IdleReq ==
  [pc        |-> "idle",
   sid       |-> "",
   user_msg  |-> <<>>,
   history   |-> 0,       \* the list `history` names, 0 before get_session
   full_text |-> <<>>,
   events    |-> <<>>,    \* the frames sent to the client so far
   stack     |-> <<>>,    \* the nested generators, innermost last
   turns     |-> <<>>,    \* the upstream requests made so far
   status    |-> 0,       \* HTTP status of the response, 0 before it is known
   before    |-> <<>>,    \* the stored conversation of sid when the request
                          \* arrived, <<>> when there was none
   n         |-> 0]       \* the requests this handler has served before

\* One generator of call_inference_stream: messages is its argument (a list
\* in heap), text what the upstream streams in this turn and pos how much of
\* it has arrived, buffer_text the local of line 468.
NewFrame(messages) ==
  [pc |-> "post", turn |-> 0, messages |-> messages,
   text |-> <<>>, pos |-> 0, buffer_text |-> <<>>]

\* One upstream request: the messages of its payload, the text streamed in
\* answer, how it ended ("open" while it runs, "ended" after [DONE] or the
\* end of the stream, "raise", "http_error", "post_raise"), and the objects
\* found by line 504 during it.
NewTurn(payload, text, outcome) ==
  [payload |-> payload, text |-> text, outcome |-> outcome, found |-> <<>>]

Init ==
  /\ SESSIONS = [s \in {} |-> 0]
  /\ heap = <<>>
  /\ req = [r \in AllReqs |-> IdleReq]

Top(rq) == rq.stack[Len(rq.stack)]
Streaming(rq) == rq.pc = "stream" /\ rq.stack # <<>>

RECURSIVE TokenText(_)
\* lines 613-617 of generate(): the content of the token frames among evs
TokenText(evs) ==
  IF evs = <<>> THEN <<>>
  ELSE (IF Head(evs).type = "token" THEN Head(evs).content ELSE <<>>)
       \o TokenText(Tail(evs))

\* generate() forwards each frame and accumulates full_text (lines 612-618)
Emit(rq, evs) ==
  [rq EXCEPT !.events = @ \o evs, !.full_text = @ \o TokenText(evs)]

SetTop(rq, f) == [rq EXCEPT !.stack[Len(rq.stack)] = f]

\* a return after which generate() never leaves its for loop
ReturnStuck(rq) ==
  [rq EXCEPT !.stack = SubSeq(rq.stack, 1, Len(rq.stack) - 1)]

\* the innermost generator returns: its caller resumes after `yield from`
\* (line 561), or generate() leaves its for loop (line 619)
Return(rq) ==
  [rq EXCEPT !.stack = SubSeq(rq.stack, 1, Len(rq.stack) - 1),
             !.pc = IF Len(rq.stack) = 1 THEN "finish" ELSE @]

SetOutcome(rq, o) == [rq EXCEPT !.turns[Top(rq).turn].outcome = o]

\* a generator that posts its request again after a failure
RetryTurn(rq) == SetTop(rq, [Top(rq) EXCEPT !.pc = "post", !.pos = 0, !.buffer_text = <<>>])

\* a generator that yields its own done frame when it fails
FailTurnWithDone(rq) == Return(Emit(rq, <<DoneEv>>))

\* line 466 and the end of the except block of lines 579-581: after the
\* error frame the generator returns
FailTurn(rq) == Return(rq)

(***************************************************************************)
(* /chat/stream (lines 590-623)                                            *)
(***************************************************************************)
\* the conversation stored for sid, <<>> when there is none
Stored(sid) == IF sid \in DOMAIN SESSIONS THEN heap[SESSIONS[sid]] ELSE <<>>

\* lines 592-596: the request arrives, with a session id of sids and a
\* message of msgs
ChatStreamOf(r, sids, msgs) ==
  /\ req[r].pc = "idle"
  /\ \E sid \in sids, msg \in msgs :
       req' = [req EXCEPT ![r] =
                 IF msg = <<>>
                 THEN [@ EXCEPT !.pc = "closed", !.status = 400, !.sid = sid,
                                !.before = Stored(sid)]
                 ELSE [@ EXCEPT !.pc = "get_session", !.sid = sid, !.user_msg = msg,
                                !.before = Stored(sid)]]
  /\ UNCHANGED <<SESSIONS, heap>>

ChatStream(r, sids) == ChatStreamOf(r, sids, UserMsgs \cup {<<>>})

\* The lists still referenced: by the store S, by the local `history` of a
\* handler, or by the argument `messages` of a generator.
LiveIds(S, rq) ==
  ({S[s] : s \in DOMAIN S}
     \cup UNION {{rq[r].history} \cup {rq[r].stack[k].messages : k \in 1..Len(rq[r].stack)} :
                  r \in DOMAIN rq})
  \ {0}

\* Python frees a list nobody references.  The lists that are left keep
\* their order in heap and are numbered anew; every reference follows.
Compacted(S, h, rq) ==
  LET live == LiveIds(S, rq) \cap (1..Len(h))
      rank(i) == IF i = 0 THEN 0 ELSE Cardinality({j \in live : j <= i})
      old(k) == CHOOSE i \in live : rank(i) = k
      frames(st) == [k \in 1..Len(st) |-> [st[k] EXCEPT !.messages = rank(st[k].messages)]]
  IN [S  |-> [s \in DOMAIN S |-> rank(S[s])],
      h  |-> [k \in 1..Cardinality(live) |-> h[old(k)]],
      rq |-> [r \in DOMAIN rq |->
                [rq[r] EXCEPT !.history = rank(rq[r].history),
                              !.stack = frames(rq[r].stack)]]]

\* line 793, threaded=True: the response is complete, the locals of the
\* handler are dropped and the handler is free for the next request
Recycle(r) ==
  /\ req[r].pc = "closed"
  /\ LET c == Compacted(SESSIONS, heap,
                        [req EXCEPT ![r] = [IdleReq EXCEPT !.n = req[r].n + 1]])
     IN SESSIONS' = c.S /\ heap' = c.h /\ req' = c.rq

\* line 229: if sid not in SESSIONS
GetSessionCheck(r) ==
  /\ req[r].pc = "get_session"
  /\ req' = [req EXCEPT ![r].pc =
               IF req[r].sid \notin DOMAIN SESSIONS THEN "gs_insert" ELSE "gs_return"]
  /\ UNCHANGED <<SESSIONS, heap>>

\* a new conversation without the system message
EmptyConversation == <<>>

\* line 230: the list a new session starts with
FreshConversation == <<Msg("system", SYSTEM_PROMPT)>>

\* line 230: SESSIONS[sid] = [system message]
GetSessionInsert(r) ==
  /\ req[r].pc = "gs_insert"
  /\ heap' = Append(heap, FreshConversation)
  /\ SESSIONS' = [s \in DOMAIN SESSIONS \cup {req[r].sid} |->
                    IF s = req[r].sid THEN Len(heap) + 1 ELSE SESSIONS[s]]
  /\ req' = [req EXCEPT ![r].pc = "gs_return"]

\* line 231: return SESSIONS[sid]; a KeyError ends the request with a 500
GetSessionReturn(r) ==
  /\ req[r].pc = "gs_return"
  /\ req' = [req EXCEPT ![r] =
               IF req[r].sid \in DOMAIN SESSIONS
               THEN [@ EXCEPT !.pc = "append_user", !.history = SESSIONS[req[r].sid]]
               ELSE [@ EXCEPT !.pc = "closed", !.status = 500]]
  /\ UNCHANGED <<SESSIONS, heap>>

\* line 599: history.append(user message)
AppendUser(r) ==
  /\ req[r].pc = "append_user"
  /\ heap' = [heap EXCEPT ![req[r].history] = Append(@, Msg("user", req[r].user_msg))]
  /\ req' = [req EXCEPT ![r].pc = "trim"]
  /\ UNCHANGED SESSIONS

\* the last messages without the system message: history[-9:]
TrimmedTail(h) == SubSeq(h, Len(h) - KEEP_LAST, Len(h))

\* [history[0]] + history[-8:]
Trimmed(h) == <<h[1]>> \o SubSeq(h, Len(h) - KEEP_LAST + 1, Len(h))

\* a trim that shortens the stored list itself
TrimInPlace(r) ==
  /\ req[r].pc = "trim"
  /\ heap' = IF Len(heap[req[r].history]) > HISTORY_LIMIT
             THEN [heap EXCEPT ![req[r].history] = Trimmed(@)]
             ELSE heap
  /\ req' = [req EXCEPT ![r].pc = "generate"]
  /\ UNCHANGED SESSIONS

\* lines 604-606: a longer history is replaced by a new, shorter list
Trim(r) ==
  /\ req[r].pc = "trim"
  /\ IF Len(heap[req[r].history]) > HISTORY_LIMIT
     THEN /\ heap' = Append(heap, Trimmed(heap[req[r].history]))
          /\ req' = [req EXCEPT ![r].pc = "generate", ![r].history = Len(heap) + 1]
     ELSE /\ req' = [req EXCEPT ![r].pc = "generate"]
          /\ UNCHANGED heap
  /\ UNCHANGED SESSIONS

\* lines 609-611: the ping frame, then call_inference_stream(history)
Generate(r) ==
  /\ req[r].pc = "generate"
  /\ req' = [req EXCEPT ![r] =
               [Emit(@, <<PingEv>>) EXCEPT !.pc = "stream", !.status = 200,
                                           !.stack = <<NewFrame(req[r].history)>>]]
  /\ UNCHANGED <<SESSIONS, heap>>

\* the test of line 619
Persisted(full_text) == full_text # <<>> /\ ~StripStartsWith(full_text, "{")

\* a generate() that looks the session up again to append the reply
FinishStored(r) ==
  /\ req[r].pc = "finish"
  /\ heap' = IF Persisted(req[r].full_text) /\ req[r].sid \in DOMAIN SESSIONS
             THEN [heap EXCEPT ![SESSIONS[req[r].sid]] =
                     Append(@, Msg("assistant", req[r].full_text))]
             ELSE heap
  /\ req' = [req EXCEPT ![r] = [Emit(@, <<DoneEv>>) EXCEPT !.pc = "closed"]]
  /\ UNCHANGED SESSIONS

\* lines 619-621: the reply is appended to history, then the done frame
Finish(r) ==
  /\ req[r].pc = "finish"
  /\ heap' = IF Persisted(req[r].full_text)
             THEN [heap EXCEPT ![req[r].history] =
                     Append(@, Msg("assistant", req[r].full_text))]
             ELSE heap
  /\ req' = [req EXCEPT ![r] = [Emit(@, <<DoneEv>>) EXCEPT !.pc = "closed"]]
  /\ UNCHANGED SESSIONS

(***************************************************************************)
(* call_inference_stream (lines 454-581)                                   *)
(***************************************************************************)
\* lines 462-468: the request is answered with status 200 and a stream
PostOk(r) ==
  /\ Streaming(req[r]) /\ Top(req[r]).pc = "post"
  /\ \E text \in AnswersTo(heap[Top(req[r]).messages], Len(req[r].stack)) :
       LET rq == req[r]
           f == Top(rq)
           t == Len(rq.turns) + 1
       IN req' = [req EXCEPT ![r] =
            [SetTop(rq, [f EXCEPT !.pc = "iter", !.turn = t, !.text = text])
               EXCEPT !.turns = Append(@, NewTurn(heap[f.messages], text, "open"))]]
  /\ UNCHANGED <<SESSIONS, heap>>

\* lines 463-465: any other status: one error frame, return
PostHttpError(r) ==
  /\ Streaming(req[r]) /\ Top(req[r]).pc = "post"
  /\ \E code \in HttpErrors :
       LET rq == req[r]
           f == Top(rq)
           t == Len(rq.turns) + 1
           rq1 == [rq EXCEPT !.turns = Append(@, NewTurn(heap[f.messages], <<>>, "http_error"))]
       IN req' = [req EXCEPT ![r] =
                    FailTurn(Emit(rq1, <<ErrorEv(API_ERROR_PREFIX \o code, t)>>))]
  /\ UNCHANGED <<SESSIONS, heap>>

\* lines 461 and 579-581: requests.post raises (no connection, timeout)
PostRaise(r) ==
  /\ Streaming(req[r]) /\ Top(req[r]).pc = "post"
  /\ LET rq == req[r]
         f == Top(rq)
         t == Len(rq.turns) + 1
         rq1 == [rq EXCEPT !.turns = Append(@, NewTurn(heap[f.messages], <<>>, "post_raise"))]
     IN req' = [req EXCEPT ![r] =
                  FailTurn(Emit(rq1, <<ErrorEv(CONNECTION_INTERRUPTED, t)>>))]
  /\ UNCHANGED <<SESSIONS, heap>>

\* lines 470-471, 474, 483-487, 497-498: a line that is empty, is no data
\* line, does not parse or carries no delta is skipped
SkipLine(r) ==
  /\ Streaming(req[r]) /\ Top(req[r]).pc = "iter"
  /\ UNCHANGED vars

\* the deltas that may arrive next: the text up to a later cut position
NextCuts(f, depth) == {p \in (f.pos + 1)..Len(f.text) : CutOk(f.text, p, depth)}

\* lines 489-520 and 562-573: a delta arrives and no tool is called
DeliverText(r) ==
  /\ Streaming(req[r]) /\ Top(req[r]).pc = "iter"
  /\ \E p \in NextCuts(Top(req[r]), Len(req[r].stack)) :
     \E d \in {DeltaStep(Top(req[r]).buffer_text,
                         SubSeq(Top(req[r]).text, Top(req[r]).pos + 1, p))} :
       LET rq == req[r]
           f == Top(rq)
           evs == IF d.kind = "badjson"
                  THEN TokenIf(d.before, f.turn) \o <<TokenEv(d.js, f.turn)>>
                  ELSE IF d.kind = "flush" THEN <<TokenEv(d.out, f.turn)>>
                  ELSE <<>>
           rq1 == SetTop(rq, [f EXCEPT !.pos = p, !.buffer_text = d.buffer])
           rq2 == IF d.kind = "badjson"
                  THEN [rq1 EXCEPT !.turns[f.turn].found = Append(@, d.js)]
                  ELSE rq1
       IN /\ d.kind # "tool"
          /\ req' = [req EXCEPT ![r] = Emit(rq2, evs)]
  /\ UNCHANGED <<SESSIONS, heap>>

\* the follow-up messages without the assistant message of the call
NewMessagesResultOnly(messages, js, tool_result) ==
  messages \o <<Msg("user", TOOL_RESULT_PREFIX \o tool_result)>>

\* lines 548-551
NewMessages(messages, js, tool_result) ==
  messages \o <<Msg("assistant", js), Msg("user", TOOL_RESULT_PREFIX \o tool_result)>>

\* lines 489-559: a delta completes an object that parses: the tool runs and
\* a nested generator is started on the extended messages
DeliverToolCall(r) ==
  /\ Streaming(req[r]) /\ Top(req[r]).pc = "iter"
  /\ \E p \in NextCuts(Top(req[r]), Len(req[r].stack)) :
     \E d \in {DeltaStep(Top(req[r]).buffer_text,
                         SubSeq(Top(req[r]).text, Top(req[r]).pos + 1, p))},
        kb \in KbAnswers, tg \in TgAnswers :
       LET rq == req[r]
           f == Top(rq)
           tool_result == RunTool(d.tool_name, d.query, kb, tg)
           evs == TokenIf(d.before, f.turn) \o ToolFrames(d.tool_name, d.query, f.turn)
           rq1 == SetTop(rq, [f EXCEPT !.pos = p, !.buffer_text = d.after])
           rq2 == [rq1 EXCEPT !.turns[f.turn].found = Append(@, d.js),
                              !.stack = Append(@, NewFrame(Len(heap) + 1))]
       IN /\ d.kind = "tool"
          /\ heap' = Append(heap, NewMessages(heap[f.messages], d.js, tool_result))
          /\ req' = [req EXCEPT ![r] = Emit(rq2, evs)]
  /\ UNCHANGED SESSIONS

\* a generator that drops what it still holds when the stream ends
FlushNothing(buffer_text, t) == <<>>

\* lines 478-480 and 576-577: what is left in buffer_text is yielded
FlushResidual(buffer_text, t) == TokenIf(buffer_text, t)

\* lines 476-481 and 575-577: the [DONE] line arrives after the last delta
StreamDone(r) ==
  /\ Streaming(req[r]) /\ Top(req[r]).pc = "iter"
  /\ Top(req[r]).pos = Len(Top(req[r]).text)
  /\ LET rq == req[r]
         f == Top(rq)
     IN req' = [req EXCEPT ![r] =
                  Return(Emit(SetOutcome(rq, "ended"), FlushResidual(f.buffer_text, f.turn)))]
  /\ UNCHANGED <<SESSIONS, heap>>

\* lines 469 and 575-577: the stream ends without a [DONE] line
StreamClose(r) ==
  /\ Streaming(req[r]) /\ Top(req[r]).pc = "iter"
  /\ Top(req[r]).pos = Len(Top(req[r]).text)
  /\ LET rq == req[r]
         f == Top(rq)
     IN req' = [req EXCEPT ![r] =
                  Return(Emit(SetOutcome(rq, "ended"), FlushResidual(f.buffer_text, f.turn)))]
  /\ UNCHANGED <<SESSIONS, heap>>

\* lines 579-581: reading the stream raises (connection lost, read timeout)
StreamRaise(r) ==
  /\ Streaming(req[r]) /\ Top(req[r]).pc = "iter"
  /\ LET rq == req[r]
         f == Top(rq)
     IN req' = [req EXCEPT ![r] =
                  FailTurn(Emit(SetOutcome(rq, "raise"),
                              <<ErrorEv(CONNECTION_INTERRUPTED, f.turn)>>))]
  /\ UNCHANGED <<SESSIONS, heap>>

(***************************************************************************)
(* /api/reset (lines 625-629)                                              *)
(***************************************************************************)
\* a reset that empties the stored list and keeps the entry
ResetClear(sid) ==
  /\ heap' = IF sid \in DOMAIN SESSIONS THEN [heap EXCEPT ![SESSIONS[sid]] = <<>>] ELSE heap
  /\ UNCHANGED <<SESSIONS, req>>

\* a reset that deletes every entry of the store
ResetAll(sid) ==
  LET c == Compacted([s \in {} |-> 0], heap, req)
  IN SESSIONS' = c.S /\ heap' = c.h /\ req' = c.rq

\* lines 627-628: the entry of sid is deleted if there is one; the list it
\* held is freed unless a running request still holds it
Reset(sid) ==
  LET c == Compacted([s \in DOMAIN SESSIONS \ {sid} |-> SESSIONS[s]], heap, req)
  IN SESSIONS' = c.S /\ heap' = c.h /\ req' = c.rq

(***************************************************************************)
(* The stream specification: one request on one session, every text of     *)
(* FirstTexts, every chunking, every way a stream can end                  *)
(***************************************************************************)
Next ==
  \E r \in StreamReqs :
    \/ ChatStream(r, StreamSids)
    \/ GetSessionCheck(r)
    \/ GetSessionInsert(r)
    \/ GetSessionReturn(r)
    \/ AppendUser(r)
    \/ Trim(r)
    \/ Generate(r)
    \/ PostOk(r)
    \/ PostHttpError(r)
    \/ PostRaise(r)
    \/ SkipLine(r)
    \/ DeliverText(r)
    \/ DeliverToolCall(r)
    \/ StreamDone(r)
    \/ StreamClose(r)
    \/ StreamRaise(r)
    \/ Finish(r)

Spec == Init /\ [][Next]_vars

(***************************************************************************)
(* The session specification: one handler serves a sequence of requests on *)
(* one session, which may be reset at any moment.  The upstream answers    *)
(* SessionMsg with SessionTexts.                                           *)
(***************************************************************************)
\* the requests the handler serves one after the other
MaxRequests == 5

SessionNext ==
  \/ \E r \in StreamReqs :
       req[r].n < MaxRequests /\ ChatStreamOf(r, StreamSids, SessionMsgs \cup {<<>>})
  \/ \E sid \in StreamSids : Reset(sid)
  \/ \E r \in StreamReqs :
       \/ GetSessionCheck(r)
       \/ GetSessionInsert(r)
       \/ GetSessionReturn(r)
       \/ AppendUser(r)
       \/ Trim(r)
       \/ Generate(r)
       \/ PostOk(r)
       \/ PostHttpError(r)
       \/ PostRaise(r)
       \/ SkipLine(r)
       \/ DeliverText(r)
       \/ DeliverToolCall(r)
       \/ StreamDone(r)
       \/ StreamClose(r)
       \/ StreamRaise(r)
       \/ Finish(r)
       \/ Recycle(r)

SessionSpec == Init /\ [][SessionNext]_vars

(***************************************************************************)
(* The two-session specification: each handler serves one request, handler *)
(* 1 on session s1 and handler 2 on session s2, in any interleaving with   *)
(* each other and with resets of either session.                           *)
(***************************************************************************)
\* the session a handler serves
SidOf(r) == IF r = 1 THEN "s1" ELSE "s2"

PairNext ==
  \/ \E r \in AllReqs : req[r].n = 0 /\ ChatStreamOf(r, {SidOf(r)}, SessionMsgs)
  \/ \E sid \in SessionIds : Reset(sid)
  \/ \E r \in AllReqs :
       \/ GetSessionCheck(r)
       \/ GetSessionInsert(r)
       \/ GetSessionReturn(r)
       \/ AppendUser(r)
       \/ Trim(r)
       \/ Generate(r)
       \/ PostOk(r)
       \/ PostHttpError(r)
       \/ PostRaise(r)
       \/ SkipLine(r)
       \/ DeliverText(r)
       \/ DeliverToolCall(r)
       \/ StreamDone(r)
       \/ StreamClose(r)
       \/ StreamRaise(r)
       \/ Finish(r)
       \/ Recycle(r)

PairSpec == Init /\ [][PairNext]_vars

(***************************************************************************)
(* The shared-session specifications: two handlers serve one request each  *)
(* on the same session, in any interleaving of their steps.  In RaceSpec   *)
(* the session is never reset; in SharedSpec it may be reset at any        *)
(* moment.  The two requests carry different messages.                     *)
(***************************************************************************)
\* the message of the request a handler serves
MsgOf(r) == IF r = 1 THEN SessionMsg ELSE OtherMsg

RaceNext ==
  \/ \E r \in AllReqs : req[r].n = 0 /\ ChatStreamOf(r, StreamSids, {MsgOf(r)})
  \/ \E r \in AllReqs :
       \/ GetSessionCheck(r)
       \/ GetSessionInsert(r)
       \/ GetSessionReturn(r)
       \/ AppendUser(r)
       \/ Trim(r)
       \/ Generate(r)
       \/ PostOk(r)
       \/ PostHttpError(r)
       \/ PostRaise(r)
       \/ SkipLine(r)
       \/ DeliverText(r)
       \/ DeliverToolCall(r)
       \/ StreamDone(r)
       \/ StreamClose(r)
       \/ StreamRaise(r)
       \/ Finish(r)
       \/ Recycle(r)

RaceSpec == Init /\ [][RaceNext]_vars

SharedNext ==
  \/ \E r \in AllReqs : req[r].n = 0 /\ ChatStreamOf(r, StreamSids, {MsgOf(r)})
  \/ \E sid \in StreamSids : Reset(sid)
  \/ \E r \in AllReqs :
       \/ GetSessionCheck(r)
       \/ GetSessionInsert(r)
       \/ GetSessionReturn(r)
       \/ AppendUser(r)
       \/ Trim(r)
       \/ Generate(r)
       \/ PostOk(r)
       \/ PostHttpError(r)
       \/ PostRaise(r)
       \/ SkipLine(r)
       \/ DeliverText(r)
       \/ DeliverToolCall(r)
       \/ StreamDone(r)
       \/ StreamClose(r)
       \/ StreamRaise(r)
       \/ Finish(r)
       \/ Recycle(r)

SharedSpec == Init /\ [][SharedNext]_vars

(***************************************************************************)
(* The specification with the fairness the claims about termination        *)
(* assume: a handler thread that can take a step of its own eventually     *)
(* takes one, and every upstream stream eventually delivers, ends or       *)
(* fails.  The arrival of a request and skipped lines are not forced.      *)
(***************************************************************************)
Progress ==
  \E r \in StreamReqs :
    \/ StreamRaise(r) \/ PostRaise(r) \/ PostHttpError(r) \/ PostOk(r)
    \/ StreamDone(r) \/ StreamClose(r)
    \/ GetSessionCheck(r) \/ GetSessionInsert(r) \/ GetSessionReturn(r)
    \/ AppendUser(r) \/ Trim(r) \/ Generate(r)
    \/ Finish(r)
    \/ DeliverText(r) \/ DeliverToolCall(r)

LiveSpec == Init /\ [][Next]_vars /\ WF_vars(Progress)

(***************************************************************************)
(* Observations used by the claims                                         *)
(***************************************************************************)
EventsOfTurn(rq, t) == SelectSeq(rq.events, LAMBDA e : e.turn = t)
TypesOf(evs) == [i \in 1..Len(evs) |-> evs[i].type]
TurnsOf(rq) == 1..Len(rq.turns)
\* the turn ran to the end of its stream ([DONE] or the stream closing)
Ended(rq, t) == rq.turns[t].outcome = "ended"
\* the response ran to completion as an event stream
Completed(rq) == rq.pc = "closed" /\ rq.status = 200

\* the type of the last frame sent, "" when none was sent
LastType(rq) == IF rq.events = <<>> THEN "" ELSE rq.events[Len(rq.events)].type

\* text is one well-formed JSON object and nothing else
WholeObject(text) == text # <<>> /\ text[1] = "{" /\ json_loads(text).ok

\* text is exactly {"tool": x, "query": y} with strings x and y
IsToolCallText(text) ==
  /\ WholeObject(text)
  /\ LET m == json_loads(text).val.m
     IN /\ Len(m) = 2
        /\ m[1].k = TOOL /\ m[1].v.t = "str"
        /\ m[2].k = QUERY /\ m[2].v.t = "str"

\* The first well-formed JSON object of text as json.loads reads it: the
\* shortest span from the first '{' that parses.  <<>> when there is none.
FirstObject(text) ==
  LET start == Find(text, "{") + 1
      ends == {e \in start..Len(text) : start > 0 /\ json_loads(SubSeq(text, start, e)).ok}
  IN IF ends = {} THEN <<>>
     ELSE SubSeq(text, start, CHOOSE e \in ends : \A e2 \in ends : e <= e2)

\* computed once for the texts of the model
FirstObjectOf == [text \in FirstTexts |-> FirstObject(text)]
WholeObjectTexts == {text \in FirstTexts : WholeObject(text)}
ToolCallTexts == {text \in FirstTexts : IsToolCallText(text)}

(***************************************************************************)
(* C1  No-leak: a turn whose whole output is one well-formed tool-call     *)
(* object {"tool":x,"query":y}, in any chunking, yields no token frame and *)
(* exactly one tool_start followed by exactly one tool_end.                *)
(***************************************************************************)
C1_NoLeak ==
  \A r \in StreamReqs : \A t \in TurnsOf(req[r]) :
    (Ended(req[r], t) /\ req[r].turns[t].text \in ToolCallTexts)
      => TypesOf(EventsOfTurn(req[r], t)) = <<"tool_start", "tool_end">>

(***************************************************************************)
(* C2  Tool round trip: first turn exactly a get_info call, follow-up turn *)
(* plain text T: the client receives tool_start (tool and input as parsed),*)
(* tool_end, tokens that concatenate to T, then done, in this order, and   *)
(* no token holds a '{'.  (The ping frame of generate() comes first.)      *)
(***************************************************************************)
RoundTrip(rq) ==
  /\ Completed(rq)
  /\ rq.turns # <<>>
  /\ rq.turns[1].text = T_TOOL /\ Ended(rq, 1)
  /\ \A t \in 2..Len(rq.turns) : ~Contains(rq.turns[t].text, "{") /\ Ended(rq, t)

C2_ToolRoundTrip ==
  \A r \in StreamReqs :
    RoundTrip(req[r]) =>
      LET evs == req[r].events
          n == Len(evs)
      IN /\ Len(req[r].turns) = 2
         /\ n >= 5
         /\ evs[1] = PingEv
         /\ evs[2] = ToolStartEv(StrVal(<<"g","e","t","_","i","n","f","o">>),
                                 StrVal(<<"p","r","i","c","i","n","g">>), 1)
         /\ evs[3] = ToolEndEv(1)
         /\ \A i \in 4..(n - 1) : evs[i].type = "token" /\ ~Contains(evs[i].content, "{")
         /\ TokenText(SubSeq(evs, 4, n - 1)) = req[r].turns[2].text
         /\ evs[n] = DoneEv

C2_Witness == \E r \in StreamReqs : RoundTrip(req[r]) /\ Len(req[r].events) = 7

(***************************************************************************)
(* C3  Bounded recursion: when every turn answers with a tool call, the    *)
(* orchestrator stops after the configured maximum of turns (3 in the      *)
(* specification) and issues no further upstream request.                  *)
(***************************************************************************)
C3_BoundedRecursion ==
  \A r \in StreamReqs :
    (\A t \in 1..(Len(req[r].turns) - 1) : req[r].turns[t].text = T_TOOL)
      => Len(req[r].turns) <= 3

(***************************************************************************)
(* C4  Pass-through: in a turn whose text holds no '{', every delta is     *)
(* forwarded at once as one token equal to the delta and nothing stays in  *)
(* the buffer; when the turn has ended its tokens concatenate to the text, *)
(* and the completed response ends with done.                              *)
(***************************************************************************)
C4_Step ==
  \A r \in StreamReqs :
    (/\ Streaming(req[r]) /\ Top(req[r]).pc = "iter"
     /\ ~Contains(Top(req[r]).text, "{")
     /\ Len(req'[r].stack) = Len(req[r].stack)
     /\ Top(req'[r]).pos > Top(req[r]).pos)
    => /\ req'[r].events =
            Append(req[r].events,
                   TokenEv(SubSeq(Top(req[r]).text, Top(req[r]).pos + 1, Top(req'[r]).pos),
                           Top(req[r]).turn))
       /\ Top(req'[r]).buffer_text = <<>>

C4_Final ==
  \A r \in StreamReqs :
    /\ \A t \in TurnsOf(req[r]) :
         (Ended(req[r], t) /\ ~Contains(req[r].turns[t].text, "{"))
           => TokenText(EventsOfTurn(req[r], t)) = req[r].turns[t].text
    /\ (Completed(req[r]) /\ \A t \in TurnsOf(req[r]) : ~Contains(req[r].turns[t].text, "{"))
         => LastType(req[r]) = "done"

C4_PassThrough == [][C4_Step]_vars /\ []C4_Final

C4_Witness ==
  \E r \in StreamReqs :
    /\ Completed(req[r]) /\ Len(req[r].turns) = 1
    /\ req[r].turns[1].text = T_PLAIN /\ Ended(req[r], 1)
    /\ Len(req[r].events) = 5

(***************************************************************************)
(* C5  Brace balance: in prefix + object + suffix, with no '{' in prefix   *)
(* and object a well-formed JSON object, what the scanner finds is exactly *)
(* the object, and the turn finds it once the text has arrived.            *)
(***************************************************************************)
C5_BraceBalance ==
  \A r \in StreamReqs : \A t \in TurnsOf(req[r]) :
    LET text == req[r].turns[t].text
        found == req[r].turns[t].found
    IN (text \in FirstTexts /\ FirstObjectOf[text] # <<>>)
         => /\ found # <<>> => found[1] = FirstObjectOf[text]
            /\ Ended(req[r], t) => found # <<>>

(***************************************************************************)
(* C6  Escape handling: for every text that is one well-formed JSON        *)
(* object, escaped quotes included, _find_complete_json returns the whole  *)
(* object, not a shorter or longer span.                                   *)
(***************************************************************************)
C6_EscapeHandling ==
  \A r \in StreamReqs : \A t \in TurnsOf(req[r]) :
    LET text == req[r].turns[t].text
    IN text \in WholeObjectTexts
         => _find_complete_json(text) = [js |-> text, sidx |-> 0, eidx |-> Len(text)]

(***************************************************************************)
(* C7  Chunking independence: for a text that is one well-formed JSON      *)
(* object, the objects found in any chunking are those found when the text *)
(* arrives as a single delta.                                              *)
(***************************************************************************)
SingleDeltaFound(text) ==
  LET d == DeltaStep(<<>>, text) IN IF d.js # <<>> THEN <<d.js>> ELSE <<>>

SingleDeltaFoundOf == [text \in FirstTexts |-> SingleDeltaFound(text)]

C7_ChunkingIndependence ==
  \A r \in StreamReqs : \A t \in TurnsOf(req[r]) :
    LET text == req[r].turns[t].text
    IN (Ended(req[r], t) /\ text \in WholeObjectTexts)
         => req[r].turns[t].found = SingleDeltaFoundOf[text]

(***************************************************************************)
(* C8  Several objects in one turn: each is found on its own and none is   *)
(* yielded as token content, in every chunking and whether or not deltas   *)
(* follow the last object.                                                 *)
(***************************************************************************)
C8_MultipleToolCalls ==
  \A r \in StreamReqs : \A t \in TurnsOf(req[r]) :
    (Ended(req[r], t) /\ req[r].turns[t].text = T_TWO)
      => /\ req[r].turns[t].found = <<SubSeq(T_TWO, 1, 12), SubSeq(T_TWO, 13, 24)>>
         /\ \A i \in 1..Len(req[r].events) :
              req[r].events[i].turn = t => req[r].events[i].type # "token"

(***************************************************************************)
(* C9  Unclosed brace: in a turn whose text opens a '{' and never closes   *)
(* it, no tool_start is yielded, the text held back never exceeds the      *)
(* guard, nothing is lost while the stream runs, and when the stream has   *)
(* ended ([DONE] or close) the tokens of the turn are the text verbatim.   *)
(***************************************************************************)
Unclosed(text) == Contains(text, "{") /\ ~Contains(text, "}")

C9_UnclosedBrace ==
  \A r \in StreamReqs :
    /\ \A t \in TurnsOf(req[r]) :
         Unclosed(req[r].turns[t].text)
           => /\ \A i \in 1..Len(req[r].events) :
                   req[r].events[i].turn = t => req[r].events[i].type \in {"token", "error"}
              /\ Ended(req[r], t)
                   => TokenText(EventsOfTurn(req[r], t)) = req[r].turns[t].text
    /\ \A k \in 1..Len(req[r].stack) :
         LET f == req[r].stack[k]
         IN (f.pc = "iter" /\ Unclosed(f.text))
              => /\ Len(f.buffer_text) <= GUARD_LEN
                 /\ TokenText(EventsOfTurn(req[r], f.turn)) \o f.buffer_text
                      = SubSeq(f.text, 1, f.pos)

C9_Witness ==
  \E r \in StreamReqs : \E t \in TurnsOf(req[r]) :
    /\ req[r].turns[t].text = T_LONG /\ Ended(req[r], t)
    /\ Len(EventsOfTurn(req[r], t)) >= 2

C9_WitnessEnd ==
  \E r \in StreamReqs : \E t \in TurnsOf(req[r]) :
    /\ req[r].turns[t].text = T_UNCLOSED /\ Ended(req[r], t)
    /\ TypesOf(EventsOfTurn(req[r], t)) = <<"token">>

Failed(rq, t) == rq.turns[t].outcome \in {"http_error", "post_raise", "raise"}

\* payload starts with the messages of base and holds more
Extends(payload, base) ==
  Len(payload) > Len(base) /\ SubSeq(payload, 1, Len(base)) = base

\* the positions of evs, in order, that hold a frame of type ty
Positions(evs, ty) == {i \in 1..Len(evs) : evs[i].type = ty}

(***************************************************************************)
(* C11  Upstream failure without retry: a turn whose request fails yields  *)
(* exactly one error frame, which is the last frame of the turn, its       *)
(* generator has returned, and its payload is posted only once.            *)
(***************************************************************************)
C11_NoRetry ==
  \A r \in StreamReqs : \A t \in TurnsOf(req[r]) :
    Failed(req[r], t) =>
      LET evs == EventsOfTurn(req[r], t)
      IN /\ Positions(evs, "error") = {Len(evs)}
         /\ \A k \in 1..Len(req[r].stack) : req[r].stack[k].turn # t
         /\ \A t2 \in TurnsOf(req[r]) \ {t} :
              req[r].turns[t2].payload # req[r].turns[t].payload

C11_Witness ==
  \E r \in StreamReqs : \E t \in TurnsOf(req[r]) :
    /\ Completed(req[r]) /\ t >= 2
    /\ req[r].turns[t].outcome = "raise"
    /\ TypesOf(EventsOfTurn(req[r], t)) = <<"token", "error">>
    /\ \E t1 \in TurnsOf(req[r]) : req[r].turns[t1].outcome = "http_error"

(***************************************************************************)
(* C13  Malformed tool call: a balanced object that json.loads rejects is  *)
(* yielded verbatim as one token, with no tool_start, tool_end or error    *)
(* frame and no follow-up turn, and the text after it is processed.        *)
(***************************************************************************)
BAD_OBJECT == <<"{","x","}">>

C13_MalformedToolCall ==
  \A r \in StreamReqs : \A t \in TurnsOf(req[r]) :
    req[r].turns[t].text = T_BAD =>
      LET evs == EventsOfTurn(req[r], t)
          turn == req[r].turns[t]
      IN /\ \A i \in 1..Len(evs) :
              evs[i].type = "token" \/ (evs[i].type = "error" /\ turn.outcome = "raise")
         /\ turn.found \in {<<>>, <<BAD_OBJECT>>}
         /\ Cardinality({i \in 1..Len(evs) : evs[i] = TokenEv(BAD_OBJECT, t)}) = Len(turn.found)
         /\ \A t2 \in TurnsOf(req[r]) : ~Extends(req[r].turns[t2].payload, turn.payload)
         /\ Ended(req[r], t) => turn.found # <<>> /\ TokenText(evs) = T_BAD

C13_Witness ==
  \E r \in StreamReqs : \E t \in TurnsOf(req[r]) :
    /\ req[r].turns[t].text = T_BAD /\ Ended(req[r], t)
    /\ EventsOfTurn(req[r], t) = <<TokenEv(BAD_OBJECT, t), TokenEv(<<" ","o","k">>, t)>>

(***************************************************************************)
(* C14  Unrecognized tool degrades to text: a parsed object that names a   *)
(* tool outside the registry is yielded verbatim as a token, with no       *)
(* tool_start or tool_end frame and no follow-up turn.                     *)
(***************************************************************************)
C14_UnknownToolAsText ==
  \A r \in StreamReqs : \A t \in TurnsOf(req[r]) :
    (req[r].turns[t].text = T_CALL /\ Ended(req[r], t))
      => /\ EventsOfTurn(req[r], t) = <<TokenEv(T_CALL, t)>>
         /\ \A t2 \in TurnsOf(req[r]) :
              ~Extends(req[r].turns[t2].payload, req[r].turns[t].payload)

(***************************************************************************)
(* C15  Tool result re-injection: every executed call, one of an unknown   *)
(* tool included, starts exactly one follow-up turn whose messages are the *)
(* messages of the current turn, then an assistant message with the raw    *)
(* text of the call, then one user message made of the prefix and the      *)
(* result; the call of an unknown tool yields no error frame.              *)
(***************************************************************************)
ResultTexts ==
  KbAnswers \cup TgAnswers
    \cup {<<"T","o","o","l"," ","n","o","t"," ","f","o","u","n","d",".">>,
          <<"T","o","o","l"," ","e","x","e","c","u","t","i","o","n"," ","e","r","r","o","r",":"," ">>}

IsFollowUp(payload, base, js, prefix) ==
  /\ Len(payload) = Len(base) + 2
  /\ SubSeq(payload, 1, Len(base)) = base
  /\ payload[Len(base) + 1] = [role |-> "assistant", content |-> js]
  /\ payload[Len(base) + 2].role = "user"
  /\ \E res \in ResultTexts : payload[Len(base) + 2].content = prefix \o res

ReinjectedWith(prefix) ==
  \A r \in StreamReqs :
    Completed(req[r]) =>
      \A t \in TurnsOf(req[r]) :
        LET turn == req[r].turns[t]
        IN /\ \A i \in 1..Len(turn.found) :
                json_loads(turn.found[i]).ok
                  => Cardinality({t2 \in TurnsOf(req[r]) :
                                    IsFollowUp(req[r].turns[t2].payload, turn.payload,
                                               turn.found[i], prefix)}) = 1
           /\ (turn.text = T_CALL /\ Ended(req[r], t))
                => Positions(EventsOfTurn(req[r], t), "error") = {}

\* the statement with the prefix as the source spells it, "TOOL RESULT: "
C15_Reinjection ==
  ReinjectedWith(<<"T","O","O","L"," ","R","E","S","U","L","T",":"," ">>)

\* the statement with the prefix "TOOL_RESULT: "
C15_ReinjectionUnderscore ==
  ReinjectedWith(<<"T","O","O","L","_","R","E","S","U","L","T",":"," ">>)

C15_Witness ==
  \E r \in StreamReqs :
    /\ Completed(req[r]) /\ Len(req[r].turns) = 2
    /\ req[r].turns[1].text = T_CALL /\ Ended(req[r], 1)
    /\ req[r].turns[2].payload[Len(req[r].turns[2].payload)].content =
         <<"T","O","O","L"," ","R","E","S","U","L","T",":"," ">>
           \o <<"T","o","o","l"," ","n","o","t"," ","f","o","u","n","d",".">>

(***************************************************************************)
(* C16  Trailing output after a tool call is discarded: after the tool_end *)
(* frame of a turn, that turn yields no token and no second tool_start.    *)
(***************************************************************************)
C16_TrailingDiscarded ==
  \A r \in StreamReqs : \A t \in TurnsOf(req[r]) :
    LET evs == EventsOfTurn(req[r], t)
    IN \A i \in Positions(evs, "tool_end") : \A j \in (i + 1)..Len(evs) :
         evs[j].type \notin {"token", "tool_start"}

(***************************************************************************)
(* Observations on the session store                                       *)
(***************************************************************************)
\* the store as its content: session id -> the messages stored for it
StoreView == [sid \in DOMAIN SESSIONS |-> heap[SESSIONS[sid]]]

SystemMessage == [role |-> "system", content |-> SYSTEM_PROMPT]

(***************************************************************************)
(* C12  State unchanged on upstream failure: when the only upstream        *)
(* request of a chat request on an existing session has failed and the     *)
(* response is complete, the stored conversation is the one stored when    *)
(* the request arrived.                                                    *)
(***************************************************************************)
C12_StateUnchangedOnFailure ==
  \A r \in StreamReqs :
    (/\ Completed(req[r])
     /\ Len(req[r].turns) = 1 /\ Failed(req[r], 1)
     /\ req[r].before # <<>>
     /\ Len(Stored(req[r].sid)) >= Len(req[r].before)
     /\ SubSeq(Stored(req[r].sid), 1, Len(req[r].before)) = req[r].before)
    => Stored(req[r].sid) = req[r].before

(***************************************************************************)
(* C17  Context trimming: the messages of the first upstream request are   *)
(* the whole stored conversation when it has at most 9 entries, otherwise  *)
(* the system message and the 8 most recent messages; they are at most 9,  *)
(* start with the system message and end with the new user message.        *)
(***************************************************************************)
C17_Step ==
  \A r \in StreamReqs :
    (req[r].turns = <<>> /\ req'[r].turns # <<>>)
    => LET sent == req'[r].turns[1].payload
           stored == Stored(req[r].sid)
       IN /\ Len(sent) <= 9
          /\ sent[1] = SystemMessage
          /\ sent[Len(sent)] = [role |-> "user", content |-> req[r].user_msg]
          /\ req[r].sid \in DOMAIN SESSIONS
               => sent = IF Len(stored) <= 9 THEN stored
                         ELSE <<stored[1]>> \o SubSeq(stored, Len(stored) - 7, Len(stored))

C17_ContextTrimming == [][C17_Step]_vars

C17_Witness ==
  \E r \in StreamReqs :
    /\ Len(req[r].turns) = 1
    /\ Len(req[r].turns[1].payload) = 9
    /\ Len(Stored(req[r].sid)) = 10

(***************************************************************************)
(* C18  System-prompt invariant: every stored conversation is non-empty    *)
(* and starts with the system message, and so does every message list      *)
(* sent upstream.                                                          *)
(***************************************************************************)
C18_SystemPrompt ==
  /\ \A sid \in DOMAIN SESSIONS :
       Stored(sid) # <<>> /\ Stored(sid)[1] = SystemMessage
  /\ \A r \in AllReqs : \A t \in TurnsOf(req[r]) :
       req[r].turns[t].payload # <<>> /\ req[r].turns[t].payload[1] = SystemMessage

C18_Witness ==
  \E r \in StreamReqs :
    /\ Len(req[r].turns) = 2
    /\ Len(req[r].turns[1].payload) = 9
    /\ Len(req[r].turns[2].payload) = 11
    /\ Len(Stored(req[r].sid)) >= 10

(***************************************************************************)
(* C19  Idempotent reset: a reset leaves no entry for the session and      *)
(* changes no other entry, a reset of a session without an entry changes   *)
(* nothing in the store, and the get_session that follows returns a new    *)
(* conversation holding the system message alone.                          *)
(***************************************************************************)
C19_Step ==
  /\ \A sid \in StreamSids :
       Reset(sid)
         => /\ sid \notin DOMAIN SESSIONS'
            /\ sid \notin DOMAIN SESSIONS => StoreView' = StoreView
  /\ \A r \in StreamReqs :
       LET sid == req[r].sid
       IN /\ (req[r].pc = "get_session" /\ sid \notin DOMAIN SESSIONS
                /\ req'[r].pc # "get_session")
               => req'[r].pc = "gs_insert"
          /\ (req[r].pc = "gs_insert" /\ req'[r].pc # "gs_insert")
               => /\ sid \in DOMAIN SESSIONS'
                  /\ heap'[SESSIONS'[sid]] = <<SystemMessage>>
          /\ (req[r].pc = "gs_return" /\ req'[r].pc = "append_user")
               => heap'[req'[r].history] = Stored(sid)

C19_IdempotentReset == [][C19_Step]_vars

C19_Witness ==
  \E r \in StreamReqs :
    /\ req[r].pc = "append_user"
    /\ Len(req[r].before) >= 3
    /\ heap[req[r].history] = <<SystemMessage>>

(***************************************************************************)
(* C20  Session independence: a step of a request on one session, or a     *)
(* reset of it, neither creates nor deletes the entry of another session   *)
(* and leaves the conversation stored for the other session as it is.      *)
(***************************************************************************)
\* a handler without the numbers of the lists it refers to
Own(rq) ==
  [rq EXCEPT !.history = 0,
             !.stack = [k \in 1..Len(rq.stack) |-> [rq.stack[k] EXCEPT !.messages = 0]]]

OthersUntouched(sids) ==
  \A other \in SessionIds \ sids :
    /\ (other \in DOMAIN SESSIONS) = (other \in DOMAIN SESSIONS')
    /\ other \in DOMAIN SESSIONS => heap'[SESSIONS'[other]] = heap[SESSIONS[other]]

C20_Step ==
  /\ \A r \in AllReqs :
       Own(req'[r]) # Own(req[r]) => OthersUntouched({req[r].sid, req'[r].sid})
  /\ \A sid \in SessionIds :
       (Reset(sid) /\ \A r \in AllReqs : Own(req'[r]) = Own(req[r]))
         => OthersUntouched({sid})

C20_SessionIndependence == [][C20_Step]_vars

C20_Witness ==
  /\ DOMAIN SESSIONS = {"s1", "s2"}
  /\ Len(Stored("s1")) = 3 /\ Len(Stored("s2")) = 2
  /\ req[1].pc = "closed" /\ req[2].pc = "stream"

(***************************************************************************)
(* C21  Content preservation and order: in a turn in which no complete     *)
(* JSON object is detected, at every step the text of the token frames     *)
(* sent so far followed by the held buffer is the text received so far,    *)
(* and when the turn ends normally the text of its token frames, in order, *)
(* is the whole text streamed.                                             *)
(***************************************************************************)
NothingFound(rq, t) == rq.turns[t].found = <<>>

C21_ContentPreserved ==
  \A r \in StreamReqs :
    /\ \A i \in 1..Len(req[r].stack) :
         LET f == req[r].stack[i]
         IN (f.pc = "iter" /\ NothingFound(req[r], f.turn))
              => TokenText(EventsOfTurn(req[r], f.turn)) \o f.buffer_text
                   = SubSeq(f.text, 1, f.pos)
    /\ \A t \in TurnsOf(req[r]) :
         (Ended(req[r], t) /\ NothingFound(req[r], t))
           => TokenText(EventsOfTurn(req[r], t)) = req[r].turns[t].text

\* a turn that held text back, let it go at the guard and ended, with more
\* than one token frame
C21_Witness ==
  \E r \in StreamReqs : \E t \in TurnsOf(req[r]) :
    /\ Ended(req[r], t) /\ NothingFound(req[r], t)
    /\ req[r].turns[t].text = T_LONG
    /\ Len(EventsOfTurn(req[r], t)) >= 2

(***************************************************************************)
(* C22  Bounded hold-back buffer: after any delta has been processed, the  *)
(* text held back in buffer_text is at most GUARD_LEN characters long; a   *)
(* buffer that holds '{' with no complete object and exceeds the guard is  *)
(* sent as one token frame and emptied.                                    *)
(***************************************************************************)
C22_BoundedBuffer ==
  \A r \in StreamReqs : \A i \in 1..Len(req[r].stack) :
    LET f == req[r].stack[i]
    IN f.pc = "iter" => Len(f.buffer_text) <= GUARD_LEN

(***************************************************************************)
(* C23  Tool exception containment: when the tool dispatch raises for a    *)
(* detected call (here the call {"tool":true}, whose name has no lower()), *)
(* the turn sends tool_start and then tool_end, it sends no error frame    *)
(* unless its own stream fails later, and exactly one follow-up turn is    *)
(* started whose payload is the turn's payload, the call, and the error    *)
(* text as the tool result.                                                *)
(***************************************************************************)
ErrorResultPayload(base, js) ==
  base \o <<[role |-> "assistant", content |-> js],
            [role |-> "user", content |-> TOOL_RESULT_PREFIX \o TOOL_EXECUTION_ERROR]>>

C23_ToolExceptionContained ==
  \A r \in StreamReqs : \A t \in TurnsOf(req[r]) :
    LET turn == req[r].turns[t]
        expected == ErrorResultPayload(turn.payload, T_EXC)
        started == {u \in TurnsOf(req[r]) : req[r].turns[u].payload = expected}
        waiting == {i \in 1..Len(req[r].stack) :
                      /\ req[r].stack[i].pc = "post"
                      /\ heap[req[r].stack[i].messages] = expected}
    IN turn.found = <<T_EXC>>
         => /\ Len(EventsOfTurn(req[r], t)) >= 2
            /\ SubSeq(TypesOf(EventsOfTurn(req[r], t)), 1, 2) = <<"tool_start", "tool_end">>
            /\ ~Failed(req[r], t) => Positions(EventsOfTurn(req[r], t), "error") = {}
            /\ Cardinality(started) + Cardinality(waiting) = 1

C23_Witness ==
  \E r \in StreamReqs :
    /\ Completed(req[r]) /\ Len(req[r].turns) = 2
    /\ req[r].turns[1].found = <<T_EXC>> /\ Ended(req[r], 1)
    /\ req[r].turns[2].payload = ErrorResultPayload(req[r].turns[1].payload, T_EXC)
    /\ Ended(req[r], 2)
    /\ TypesOf(req[r].events) = <<"ping", "tool_start", "tool_end", "token", "done">>

(***************************************************************************)
(* C24  Nothing after an error: once an error frame has been sent in a     *)
(* response, no token, tool_start or tool_end frame is sent after it;      *)
(* only the final done frame may follow.                                   *)
(***************************************************************************)
C24_NothingAfterError ==
  \A r \in StreamReqs :
    \A i \in Positions(req[r].events, "error") :
      \A j \in (i + 1)..Len(req[r].events) :
        req[r].events[j].type \notin {"token", "tool_start", "tool_end"}

(***************************************************************************)
(* C25  Response framing: a response that runs to completion starts with   *)
(* the one ping frame it sends and ends with the one done frame it sends,  *)
(* whatever the number of turns and also when an error frame was sent.     *)
(***************************************************************************)
C25_ResponseFraming ==
  \A r \in StreamReqs :
    Completed(req[r])
      => /\ Positions(req[r].events, "ping") = {1}
         /\ Positions(req[r].events, "done") = {Len(req[r].events)}

\* a completed response of two turns, the second of which failed
C25_Witness ==
  \E r \in StreamReqs :
    /\ Completed(req[r]) /\ Len(req[r].turns) = 2
    /\ Failed(req[r], 2)
    /\ Positions(req[r].events, "error") # {}
    /\ LastType(req[r]) = "done"

(***************************************************************************)
(* C26  Tool event pairing: in every response each tool_start frame is     *)
(* immediately followed by a tool_end frame of the same turn and each      *)
(* tool_end frame immediately preceded by a tool_start frame, so the two   *)
(* alternate beginning with tool_start and no two calls are open at once,  *)
(* for any number of nested round trips.                                   *)
(***************************************************************************)
C26_ToolEventPairing ==
  \A r \in StreamReqs :
    LET evs == req[r].events
    IN /\ \A i \in Positions(evs, "tool_start") :
            /\ i < Len(evs)
            /\ evs[i + 1].type = "tool_end"
            /\ evs[i + 1].turn = evs[i].turn
       /\ \A i \in Positions(evs, "tool_end") :
            i > 1 /\ evs[i - 1].type = "tool_start"

\* a completed response with three nested tool round trips
C26_Witness ==
  \E r \in StreamReqs :
    /\ Completed(req[r])
    /\ Cardinality(Positions(req[r].events, "tool_start")) = MaxDepth - 1
    /\ Cardinality(Positions(req[r].events, "tool_end")) = MaxDepth - 1
    /\ Len(req[r].turns) = MaxDepth

(***************************************************************************)
(* C27  Assistant reply persisted: after a response has run to completion  *)
(* with a token text that is non-empty and does not start with '{', the    *)
(* stored conversation of its session ends with an assistant message of    *)
(* that text, whatever the length of the stored conversation.              *)
(***************************************************************************)
C27_ReplyPersisted ==
  \A r \in StreamReqs :
    (/\ Completed(req[r])
     /\ Persisted(req[r].full_text)
     /\ req[r].sid \in DOMAIN SESSIONS)
    => LET stored == Stored(req[r].sid)
       IN stored[Len(stored)] = [role |-> "assistant", content |-> req[r].full_text]

(***************************************************************************)
(* C28  Stored conversation append-only between resets: while a session    *)
(* stays in the store, a step leaves its stored conversation as it is or   *)
(* appends one message to it: the user message of a request at line 599    *)
(* or the assistant reply of a request at line 620.  Trimming and tool     *)
(* round trips never change it, and no stored message is a tool-call       *)
(* object or a tool-result message.                                        *)
(***************************************************************************)
StartsWith(text, prefix) ==
  Len(text) >= Len(prefix) /\ SubSeq(text, 1, Len(prefix)) = prefix

C28_Step ==
  \A sid \in StreamSids :
    (sid \in DOMAIN SESSIONS /\ sid \in DOMAIN SESSIONS')
    => \/ heap'[SESSIONS'[sid]] = Stored(sid)
       \/ \E r \in StreamReqs :
            /\ req[r].sid = sid
            /\ \/ /\ req[r].pc = "append_user" /\ req'[r].pc = "trim"
                  /\ heap'[SESSIONS'[sid]] =
                       Append(Stored(sid), [role |-> "user", content |-> req[r].user_msg])
               \/ /\ req[r].pc = "finish" /\ req'[r].pc = "closed"
                  /\ heap'[SESSIONS'[sid]] =
                       Append(Stored(sid), [role |-> "assistant", content |-> req[r].full_text])

C28_Contents ==
  \A sid \in DOMAIN SESSIONS : \A i \in 1..Len(Stored(sid)) :
    LET m == Stored(sid)[i]
    IN /\ m.role = "assistant" => ~StripStartsWith(m.content, "{")
       /\ ~StartsWith(m.content, TOOL_RESULT_PREFIX)

C28_AppendOnly == [][C28_Step]_vars /\ []C28_Contents

\* a request on a stored conversation of more than 9 messages that was
\* trimmed, made a tool round trip and completed
C28_Witness ==
  \E r \in StreamReqs :
    /\ Completed(req[r]) /\ Len(req[r].turns) = 2
    /\ req[r].turns[1].found = <<T_CALL>>
    /\ Len(req[r].turns[1].payload) = HISTORY_LIMIT
    /\ req[r].sid \in DOMAIN SESSIONS
    /\ Len(Stored(req[r].sid)) > HISTORY_LIMIT

(***************************************************************************)
(* C29  Reset during an in-flight stream: once the session of a handler    *)
(* has been reset, the list the handler holds is no longer the stored one. *)
(* A get_session that then finds the session absent stores and returns a   *)
(* conversation of the system message alone, and when the handler whose    *)
(* list is not the stored one finishes, its reply goes to its own list:    *)
(* the stored conversation is left as it is, in every interleaving of the  *)
(* two handlers and the resets.                                            *)
(***************************************************************************)
\* the handler holds a conversation list that is not the stored one
Detached(rq) ==
  /\ rq.history # 0
  /\ rq.sid \notin DOMAIN SESSIONS \/ SESSIONS[rq.sid] # rq.history

StoredAfter(sid) == IF sid \in DOMAIN SESSIONS' THEN heap'[SESSIONS'[sid]] ELSE <<>>

C29_Step ==
  \A r \in AllReqs :
    /\ (req[r].pc = "gs_insert" /\ req'[r].pc = "gs_return")
         => StoredAfter(req[r].sid) = <<SystemMessage>>
    /\ (req[r].pc = "gs_return" /\ req'[r].pc = "append_user")
         => /\ req[r].sid \in DOMAIN SESSIONS'
            /\ req'[r].history = SESSIONS'[req[r].sid]
    /\ (req[r].pc = "finish" /\ req'[r].pc = "closed" /\ Detached(req[r]))
         => /\ StoredAfter(req[r].sid) = Stored(req[r].sid)
            /\ Persisted(req[r].full_text)
                 => heap'[req'[r].history]
                      = Append(heap[req[r].history],
                               [role |-> "assistant", content |-> req[r].full_text])

C29_ResetInFlight == [][C29_Step]_vars

\* handler 2 arrived while the session held the message of handler 1, the
\* session was reset, handler 2 was given a new conversation, and handler 1
\* completed with a reply that is in its own list only
C29_Witness ==
  /\ Completed(req[1]) /\ Persisted(req[1].full_text) /\ Detached(req[1])
  /\ heap[req[1].history][Len(heap[req[1].history])]
       = [role |-> "assistant", content |-> req[1].full_text]
  /\ req[2].before = <<SystemMessage, [role |-> "user", content |-> SessionMsg]>>
  /\ req[2].pc = "generate"
  /\ Stored("s1") = <<SystemMessage, [role |-> "user", content |-> OtherMsg]>>

(***************************************************************************)
(* C30  No lost user message under concurrent requests on one session:     *)
(* when two requests on the same session, whose handlers interleave, have  *)
(* both run to completion and the session was never reset, the stored      *)
(* conversation starts with the system message and holds each of the two   *)
(* user messages exactly once.                                             *)
(***************************************************************************)
Occurrences(conversation, m) ==
  Cardinality({i \in 1..Len(conversation) : conversation[i] = m})

C30_NoLostUserMessage ==
  (\A r \in AllReqs : Completed(req[r]))
    => /\ "s1" \in DOMAIN SESSIONS
       /\ Stored("s1")[1] = SystemMessage
       /\ \A r \in AllReqs :
            Occurrences(Stored("s1"), [role |-> "user", content |-> MsgOf(r)]) = 1
=============================================================================
